---------------------------- MODULE Spec2Model ----------------------------
(***************************************************************************)
(* gdoc-shell: a daemon that polls a Google Doc for a shell command,       *)
(* runs it when its first token is whitelisted and appends the result to   *)
(* a log table of the same document (src/gdoc_shell.py, src/utils.py).     *)
(*                                                                         *)
(* Text is a sequence of one-character strings.  A document is the flat    *)
(* sequence of the Docs API: one token per index, index 0 first, so the    *)
(* token at API index i is doc[i + 1].                                     *)
(***************************************************************************)
EXTENDS Naturals, Sequences, FiniteSets

(***************************************************************************)
(* Bounds of the model.                                                    *)
(***************************************************************************)
\* longest raw command and longest captured standard output, in characters
MaxLen == 3
\* poll cycles begun, over all daemon instances
MaxCycles == 2
\* command-line invocations of the program
MaxProcs == 2

(***************************************************************************)
(* Text: str.strip() and str.split() of Python.                            *)
(***************************************************************************)
Whitespace == {" ", "\n", "\t"}

\* all texts over an alphabet, up to a length
Texts(alphabet, n) == UNION {[1..k -> alphabet] : k \in 0..n}

RECURSIVE LStrip(_)
LStrip(s) ==
  IF s # <<>> /\ Head(s) \in Whitespace THEN LStrip(Tail(s)) ELSE s

RECURSIVE RStrip(_)
RStrip(s) ==
  IF s # <<>> /\ s[Len(s)] \in Whitespace
    THEN RStrip(SubSeq(s, 1, Len(s) - 1))
    ELSE s

\* str.strip(): whitespace removed at both ends
Strip(s) == RStrip(LStrip(s))

\* the length of the longest prefix of s without whitespace
RECURSIVE WordLen(_)
WordLen(s) ==
  IF s = <<>> \/ Head(s) \in Whitespace THEN 0 ELSE 1 + WordLen(Tail(s))

\* str.split(): the maximal runs of non-whitespace, in order
RECURSIVE Split(_)
Split(s) ==
  LET t == LStrip(s)
      k == WordLen(t)
  IN IF t = <<>> THEN <<>>
     ELSE <<SubSeq(t, 1, k)>> \o Split(SubSeq(t, k + 1, Len(t)))

\* Python's None and a str, as values of one shape
None == [none |-> TRUE, str |-> <<>>]
Str(s) == [none |-> FALSE, str |-> s]

(***************************************************************************)
(* Messages of the output table.                                           *)
(***************************************************************************)
OUTPUT_INVALID_CMD ==
  << "C", "o", "m", "m", "a", "n", "d", " ", "i", "s", " ", "n",
     "o", "t", " ", "i", "n", " ", "t", "h", "e", " ", "l", "i",
     "s", "t", " ", "o", "f", " ", "v", "a", "l", "i", "d", " ",
     "c", "o", "m", "m", "a", "n", "d", "s", ".", " ", "P", "l",
     "e", "a", "s", "e", " ", "a", "d", "d", " ", "i", "t", " ",
     "t", "o", " ", "t", "h", "e", " ", "c", "o", "n", "f", "i",
     "g", " ", "i", "f", " ", "y", "o", "u", " ", "w", "a", "n",
     "t", " ", "t", "o", " ", "u", "s", "e", " ", "i", "t", "." >>

OUTPUT_NO_OUTPUT == << "N", "o", " ", "o", "u", "t", "p", "u", "t" >>

(***************************************************************************)
(* The document of the Docs API.  Structural tokens take one index each:   *)
(* the section break at index 0, a table start, a row start, a cell start  *)
(* and a table end; a paragraph is its characters and the newline that     *)
(* ends it.                                                                *)
(***************************************************************************)
SB == "<sectionBreak>"
TBL == "<table>"
ROW == "<tableRow>"
CELL == "<tableCell>"
TEND == "</table>"
NL == "\n"
Structural == {SB, TBL, ROW, CELL, TEND}

\* the document files().create makes: a section break and one empty paragraph
EmptyDoc == <<SB, NL>>

\* the least index at or after i that holds tok; Len(doc) when there is none
FirstAt(doc, i, tok) ==
  LET S == {j \in i..(Len(doc) - 1) : doc[j + 1] = tok}
  IN IF S = {} THEN Len(doc) ELSE CHOOSE j \in S : \A k \in S : j <= k

\* a set of indexes as an ascending sequence
RECURSIVE Ascending(_)
Ascending(S) ==
  IF S = {} THEN <<>>
  ELSE LET m == CHOOSE j \in S : \A k \in S : j <= k
       IN <<m>> \o Ascending(S \ {m})

\* document['body']['content'] from index i on: the top-level blocks
RECURSIVE BlocksFrom(_, _)
BlocksFrom(doc, i) ==
  IF i >= Len(doc) THEN <<>>
  ELSE LET tok == doc[i + 1]
           kind == IF tok = SB THEN "sectionBreak"
                   ELSE IF tok = TBL THEN "table" ELSE "paragraph"
           last == IF tok = SB THEN i
                   ELSE IF tok = TBL THEN FirstAt(doc, i, TEND)
                   ELSE FirstAt(doc, i, NL)
       IN <<[kind |-> kind, startIndex |-> i, endIndex |-> last + 1]>>
            \o BlocksFrom(doc, last + 1)

Content(doc) == BlocksFrom(doc, 0)

\* table['tableRows']: the start index of each row of a table block
TableRows(doc, tbl) ==
  Ascending({j \in tbl.startIndex..(tbl.endIndex - 1) : doc[j + 1] = ROW})

\* the index that ends row r (1-based) of a table: the next row or the table end
RowEnd(doc, tbl, r) ==
  LET rows == TableRows(doc, tbl)
  IN IF r < Len(rows) THEN rows[r + 1] ELSE tbl.endIndex - 1

\* row['tableCells']: the start index of each cell of row r (1-based)
TableCells(doc, tbl, r) ==
  LET rows == TableRows(doc, tbl)
  IN Ascending({j \in rows[r]..(RowEnd(doc, tbl, r) - 1) : doc[j + 1] = CELL})

\* the text of cell c of row r (both 1-based), without the newline that ends it
CellText(doc, tbl, r, c) ==
  LET cells == TableCells(doc, tbl, r)
      stop == IF c < Len(cells) THEN cells[c + 1] ELSE RowEnd(doc, tbl, r)
  IN SubSeq(doc, cells[c] + 2, stop - 1)

\* an empty table: each cell is one empty paragraph
EmptyRow(columns) ==
  <<ROW>> \o [k \in 1..(2 * columns) |-> IF k % 2 = 1 THEN CELL ELSE NL]

RECURSIVE EmptyRows(_, _)
EmptyRows(rows, columns) ==
  IF rows = 0 THEN <<>> ELSE EmptyRow(columns) \o EmptyRows(rows - 1, columns)

EmptyTable(rows, columns) == <<TBL>> \o EmptyRows(rows, columns) \o <<TEND>>

(***************************************************************************)
(* Requests of documents().batchUpdate, and the engine that applies them:  *)
(* in array order, each against the document the one before it left, and   *)
(* all or none (one invalid request fails the whole batch).                *)
(***************************************************************************)
\* _build_insert_text
InsertTextRequest(index, text) ==
  [type |-> "insertText", index |-> index, text |-> text,
   rows |-> 0, columns |-> 0, rowIndex |-> 0]

\* insertTableRow with insertBelow, at a row of the table that starts at index
InsertTableRowRequest(index, rowIndex) ==
  [type |-> "insertTableRow", index |-> index, text |-> <<>>,
   rows |-> 0, columns |-> 0, rowIndex |-> rowIndex]

\* insertTable at endOfSegmentLocation
InsertTableRequest(rows, columns) ==
  [type |-> "insertTable", index |-> 0, text |-> <<>>,
   rows |-> rows, columns |-> columns, rowIndex |-> 0]

\* the table block that starts at an index
TableAt(doc, index) ==
  [kind |-> "table", startIndex |-> index,
   endIndex |-> FirstAt(doc, index, TEND) + 1]

\* text goes inside the bounds of an existing paragraph and is not empty; a row
\* is added to the table that starts at the given index, below an existing row
ValidRequest(doc, req) ==
  CASE req.type = "insertText" ->
         /\ req.text # <<>>
         /\ req.index \in 1..(Len(doc) - 1)
         /\ doc[req.index + 1] \notin Structural
    [] req.type = "insertTableRow" ->
         /\ req.index \in 0..(Len(doc) - 1)
         /\ doc[req.index + 1] = TBL
         /\ req.rowIndex \in 0..(Len(TableRows(doc, TableAt(doc, req.index))) - 1)
    [] OTHER -> req.rows >= 1 /\ req.columns >= 1

InsertAt(doc, index, tokens) ==
  SubSeq(doc, 1, index) \o tokens \o SubSeq(doc, index + 1, Len(doc))

ApplyRequest(doc, req) ==
  CASE req.type = "insertText" -> InsertAt(doc, req.index, req.text)
    [] req.type = "insertTableRow" ->
         LET tbl == TableAt(doc, req.index)
             r == req.rowIndex + 1
         IN InsertAt(doc, RowEnd(doc, tbl, r),
                     EmptyRow(Len(TableCells(doc, tbl, r))))
    [] OTHER ->
         \* a newline is inserted before the table, at the end of the body
         SubSeq(doc, 1, Len(doc) - 1) \o <<NL>>
           \o EmptyTable(req.rows, req.columns) \o <<NL>>

\* the outcome of a batch: the document it leaves, or a failure that leaves
\* the document as it was
RECURSIVE ApplyInOrder(_, _)
ApplyInOrder(doc, requests) ==
  IF requests = <<>> THEN [ok |-> TRUE, doc |-> doc]
  ELSE IF ~ValidRequest(doc, Head(requests)) THEN [ok |-> FALSE, doc |-> doc]
  ELSE ApplyInOrder(ApplyRequest(doc, Head(requests)), Tail(requests))

BatchUpdate(doc, requests) ==
  LET r == ApplyInOrder(doc, requests)
  IN IF r.ok THEN r ELSE [ok |-> FALSE, doc |-> doc]

(***************************************************************************)
(* The document code of gdoc_shell.py, as functions of the fetched         *)
(* document.  Python's indexes are 0-based and the sequences here 1-based. *)
(***************************************************************************)
\* the first paragraph of the cell that starts at an index, newline included
FirstParagraph(doc, cell) == SubSeq(doc, cell + 2, FirstAt(doc, cell + 1, NL) + 1)

\* _read_command finds content[2], its row 1 and that row's cell 0; any of them
\* missing raises (IndexError, KeyError)
ReadCommandShape(doc) ==
  LET content == Content(doc)
  IN /\ Len(content) >= 3
     /\ content[3].kind = "table"
     /\ Len(TableRows(doc, content[3])) >= 2
     /\ Len(TableCells(doc, content[3], 2)) >= 1

\* _read_command: the text of the command cell, stripped
ReadCommand(doc) ==
  LET command_table == Content(doc)[3]
      cell == TableCells(doc, command_table, 2)[1]
  IN Strip(FirstParagraph(doc, cell))

\* the gate with the last token looked up in the whitelist, not the first
GateDecisionLastToken(command, whitelist) ==
  LET cmd_list == Split(command)
  IN IF cmd_list = <<>> THEN "none"
     ELSE IF cmd_list[Len(cmd_list)] \notin whitelist THEN "invalid"
     ELSE "run"

\* the gate with the raw command tested for emptiness, not its token list
GateDecisionRawEmpty(command, whitelist) ==
  LET cmd_list == Split(command)
  IN IF command = <<>> THEN "none"
     ELSE IF cmd_list = <<>> \/ cmd_list[1] \notin whitelist THEN "invalid"
     ELSE "run"

\* the gate of _execute_command before anything runs: "none" (no command),
\* "invalid" (first token not whitelisted) or "run"
GateDecision(command, whitelist) ==
  LET cmd_list == Split(command)
  IN IF cmd_list = <<>> THEN "none"
     ELSE IF cmd_list[1] \notin whitelist THEN "invalid"
     ELSE "run"

\* the return value without the fallback to OUTPUT_NO_OUTPUT
RunResultNoFallback(stdout) == Str(Strip(stdout))

\* what _execute_command returns for the captured standard output of a run
RunResult(stdout) ==
  LET out == Strip(stdout)
  IN IF out = <<>> THEN Str(OUTPUT_NO_OUTPUT) ELSE Str(out)

\* DATETIME_FORMAT applied to a clock that counts the seconds of one day
DigitChars == <<"0", "1", "2", "3", "4", "5", "6", "7", "8", "9">>
TwoDigits(n) == <<DigitChars[(n \div 10) + 1], DigitChars[(n % 10) + 1]>>
Strftime(t) ==
  <<"2", "0", "2", "0", "-", "0", "1", "-", "0", "1", " ">>
    \o TwoDigits((t \div 3600) % 24) \o <<":">>
    \o TwoDigits((t \div 60) % 60) \o <<":">> \o TwoDigits(t % 60)

\* _write_output finds content[-2], its last row and that row's cells 0..2
WriteOutputShape(doc) ==
  LET content == Content(doc)
  IN /\ Len(content) >= 2
     /\ content[Len(content) - 1].kind = "table"
     /\ LET output_table == content[Len(content) - 1]
            rows == TableRows(doc, output_table)
        IN /\ Len(rows) >= 1
           /\ Len(TableCells(doc, output_table, Len(rows))) >= 3

\* the batch with the three texts in column order, left to right
WriteRequestsLeftToRight(doc, command, out, now) ==
  LET content == Content(doc)
      output_table == content[Len(content) - 1]
      rows == TableRows(doc, output_table)
      table_cells == TableCells(doc, output_table, Len(rows))
  IN << InsertTextRequest(table_cells[1] + 1, command),
        InsertTextRequest(table_cells[2] + 1, out),
        InsertTextRequest(table_cells[3] + 1, Strftime(now)),
        InsertTableRowRequest(output_table.startIndex, Len(rows) - 1) >>

\* the batch without the row added at the end
WriteRequestsNoRow(doc, command, out, now) ==
  LET content == Content(doc)
      output_table == content[Len(content) - 1]
      rows == TableRows(doc, output_table)
      table_cells == TableCells(doc, output_table, Len(rows))
  IN << InsertTextRequest(table_cells[3] + 1, Strftime(now)),
        InsertTextRequest(table_cells[2] + 1, out),
        InsertTextRequest(table_cells[1] + 1, command) >>

\* the batch with the new row added below the header
WriteRequestsRowBelowHeader(doc, command, out, now) ==
  LET content == Content(doc)
      output_table == content[Len(content) - 1]
      rows == TableRows(doc, output_table)
      table_cells == TableCells(doc, output_table, Len(rows))
  IN << InsertTextRequest(table_cells[3] + 1, Strftime(now)),
        InsertTextRequest(table_cells[2] + 1, out),
        InsertTextRequest(table_cells[1] + 1, command),
        InsertTableRowRequest(output_table.startIndex, 0) >>

\* the batch _write_output builds from the fetched document
WriteRequests(doc, command, out, now) ==
  LET content == Content(doc)
      output_table == content[Len(content) - 1]
      rows == TableRows(doc, output_table)
      table_cells == TableCells(doc, output_table, Len(rows))
      index_datetime == table_cells[3] + 1
      index_output == table_cells[2] + 1
      index_cmd == table_cells[1] + 1
  IN << InsertTextRequest(index_datetime, Strftime(now)),
        InsertTextRequest(index_output, out),
        InsertTextRequest(index_cmd, command),
        InsertTableRowRequest(output_table.startIndex, Len(rows) - 1) >>

\* the two batches of _add_tables that create the tables
AddTableRequests(col) == <<InsertTableRequest(2, col)>>

\* _add_tables finds content[2] and content[4] and their rows 0
AddTablesShape(doc) ==
  LET content == Content(doc)
  IN /\ Len(content) >= 5
     /\ content[3].kind = "table" /\ content[5].kind = "table"
     /\ Len(TableRows(doc, content[3])) >= 1
     /\ Len(TableRows(doc, content[5])) >= 1
     /\ Len(TableCells(doc, content[3], 1)) >= 1
     /\ Len(TableCells(doc, content[5], 1)) >= 3

\* the header batch with the instruction written into row 1 of the command
\* table, the command cell
HeaderRequestsInCommandCell(doc) ==
  LET content == Content(doc)
      output_table_cells == TableCells(doc, content[5], 1)
      command_table_cells == TableCells(doc, content[3], 2)
  IN << InsertTextRequest(output_table_cells[3] + 1,
                          <<"D", "a", "t", "e", "t", "i", "m", "e">>),
        InsertTextRequest(output_table_cells[2] + 1,
                          <<"O", "u", "t", "p", "u", "t">>),
        InsertTextRequest(output_table_cells[1] + 1,
                          <<"C", "o", "m", "m", "a", "n", "d">>),
        InsertTextRequest(command_table_cells[1] + 1,
                          <<"I", "n", "s", "e", "r", "t", " ", "c", "o", "m",
                            "m", "a", "n", "d", " ", "b", "e", "l", "o", "w">>) >>

\* the batch of _add_tables that writes the headers
HeaderRequests(doc) ==
  LET content == Content(doc)
      output_table_cells == TableCells(doc, content[5], 1)
      command_table_cells == TableCells(doc, content[3], 1)
  IN << InsertTextRequest(output_table_cells[3] + 1,
                          <<"D", "a", "t", "e", "t", "i", "m", "e">>),
        InsertTextRequest(output_table_cells[2] + 1,
                          <<"O", "u", "t", "p", "u", "t">>),
        InsertTextRequest(output_table_cells[1] + 1,
                          <<"C", "o", "m", "m", "a", "n", "d">>),
        InsertTextRequest(command_table_cells[1] + 1,
                          <<"I", "n", "s", "e", "r", "t", " ", "c", "o", "m",
                            "m", "a", "n", "d", " ", "b", "e", "l", "o", "w">>) >>

\* a write that ends the text with a newline, as print(fid, file=f) would
WriteFileLine(content, text) == text \o <<"\n">>

\* open(path, 'w') and f.write(text): the old content is dropped and the text
\* is written as it is
WriteFile(content, text) == text

\* utils.read_id: f.readline() on the text of a file, which is the text up to
\* and including its first newline, or all of it when it has none
read_id(content) ==
  LET ends == {i \in 1..Len(content) : content[i] = "\n"}
  IN IF ends = {} THEN content
     ELSE SubSeq(content, 1, CHOOSE i \in ends : \A j \in ends : i <= j)

\* needs_setup with `and` between the two files
needs_setup_both_missing(dir, fid_file, token_file) ==
  IF ~dir THEN TRUE ELSE ~fid_file /\ ~token_file

\* utils.needs_setup
needs_setup(dir, fid_file, token_file) ==
  IF ~dir THEN TRUE ELSE ~fid_file \/ ~token_file

(***************************************************************************)
(* State.  A process is one invocation of the program from the command     *)
(* line; its number is also its process id.  The detached child that       *)
(* DaemonContext forks is the same process here.                           *)
(***************************************************************************)
Procs == 1..MaxProcs

VARIABLES
  credentials,     \* the credentials file of the config exists
  logFile,         \* log/gdoc_shell.log exists
  storageDir,      \* STORAGE_PATH exists
  tokenFile,       \* TOKEN_PATH exists
  fidFile,         \* the document id in FILE_ID_PATH, 0 when the file is absent
  lockFile,        \* the process id in the PID lock file, 0 when it is absent
  docs,            \* the documents of the drive: docs[id] is a flat document
  clock,           \* the local time, in seconds
  valid_commands,  \* the whitelist of the config
  pc,              \* where each process is; how it ended, once it has
  mode,            \* the mode argument of each process
  frame,           \* the local variables of each process
  signalled,       \* per process: a SIGTERM is pending
  executed,        \* every token list handed to subprocess.run, in order
  calls,           \* the requests the Docs service has received, by method
  cycles,          \* poll cycles begun
  history,         \* the poll cycles completed: what each read and returned
  id_text,         \* the identifier last written to a file, None before
  id_file,         \* the text of that file, None when it is absent
  id_read          \* what read_id returned for that text, None before

files == <<credentials, logFile, storageDir, tokenFile, fidFile>>
trace == <<executed, calls, cycles, history>>
idio == <<id_text, id_file, id_read>>
vars == <<credentials, logFile, storageDir, tokenFile, fidFile, lockFile, docs,
          clock, valid_commands, pc, mode, frame, signalled, executed, calls,
          cycles, history, id_text, id_file, id_read>>

\* int(config[MAIN_SECTION][utils.Section.SLEEP_TIME])
sleep_time == 5

\* the locals of a process: the document id, the command read, the captured
\* standard output, what _execute_command returned, the batch built
NoFrame == [fid |-> 0, cmd |-> <<>>, stdout |-> <<>>, output |-> None,
            requests |-> <<>>]

\* the positions inside the `with daemon.DaemonContext(...)` block
LoopPcs == {"run", "execute", "subprocess", "write_output", "batch", "sleep"}
\* the positions whose next step is a request to Google (OAuth, Drive, Docs)
ApiPcs == {"setup_auth", "create_file", "add_table_1", "add_table_3",
           "add_tables_get", "add_tables_text", "run", "write_output", "batch"}
\* the exceptions that end a process: ValueError (no credentials file, invalid
\* mode), FileNotFoundError (stop without a lock file), AlreadyLocked (the PID
\* lock is held), HttpError (a request to Google failed), BadRequest (the
\* service rejected a batch), IndexError (the document has not the expected
\* shape), OSError (subprocess.run could not start the program)
Errors == {"ValueError", "FileNotFoundError", "AlreadyLocked", "HttpError",
           "BadRequest", "IndexError", "OSError"}
\* the positions of a process that has ended: returned, killed by SIGTERM, or
\* ended by an exception
EndPcs == {"exited", "terminated"} \cup Errors
\* the positions at which a process does not hold the operator's terminal: not
\* started, ended, or detached as the daemon.  The operator runs one command
\* at a time and starts the next when the terminal is free
Detached == {"idle"} \cup EndPcs \cup LoopPcs

Modes == {"start", "stop", "restart", "status"}

\* the document after setup: both tables and their header texts
TemplateDoc ==
  LET d1 == BatchUpdate(EmptyDoc, <<InsertTableRequest(2, 1)>>).doc
      d2 == BatchUpdate(d1, <<InsertTableRequest(2, 3)>>).doc
  IN BatchUpdate(d2, HeaderRequests(d2)).doc

\* a process ends: on its way out of the DaemonContext block it releases the
\* PID lock it holds (DaemonContext.__exit__), and its locals are gone
Leave(p, how) ==
  /\ pc' = [pc EXCEPT ![p] = how]
  /\ lockFile' = IF pc[p] \in LoopPcs /\ lockFile = p THEN 0 ELSE lockFile
  /\ signalled' = [signalled EXCEPT ![p] = FALSE]
  /\ frame' = [frame EXCEPT ![p] = NoFrame]

Goto(p, where) ==
  /\ pc' = [pc EXCEPT ![p] = where]
  /\ UNCHANGED <<lockFile, signalled>>

Received(method) == calls' = [calls EXCEPT ![method] = @ + 1]

(***************************************************************************)
(* The command line (__main__) and the operator.                           *)
(***************************************************************************)
\* importing gdoc_shell opens the log file (setup_logger), then __main__
\* dispatches on args.mode
Main(p, m) ==
  /\ pc[p] = "idle"
  /\ \A q \in Procs \ {p} : pc[q] \in Detached /\ (q < p => pc[q] # "idle")
  /\ mode' = [mode EXCEPT ![p] = m]
  /\ logFile' = TRUE
  /\ Goto(p, IF m = "start" THEN "start"
             ELSE IF m \in {"stop", "restart"} THEN "stop"
             ELSE "ValueError")
  /\ UNCHANGED <<credentials, storageDir, tokenFile, fidFile, docs, clock,
                 valid_commands, idio, frame, trace>>

\* a stop that also removes the lock file
StopAndUnlink(p) ==
  /\ pc[p] = "stop"
  /\ pc' = [pc EXCEPT ![p] = IF lockFile = 0 THEN "FileNotFoundError"
                             ELSE IF mode[p] = "restart" THEN "start"
                             ELSE "exited"]
  /\ signalled' = [q \in Procs |->
                     IF q = lockFile /\ pc[q] \in LoopPcs THEN TRUE
                     ELSE signalled[q]]
  /\ lockFile' = 0
  /\ UNCHANGED <<files, docs, clock, valid_commands, idio, mode, frame, trace>>

\* stop(): os.kill(pid, SIGTERM) for the pid of the lock file; a missing lock
\* file raises.  It returns at once; restart goes on to start_daemon_process
Stop(p) ==
  /\ pc[p] = "stop"
  /\ pc' = [pc EXCEPT ![p] = IF lockFile = 0 THEN "FileNotFoundError"
                             ELSE IF mode[p] = "restart" THEN "start"
                             ELSE "exited"]
  /\ signalled' = [q \in Procs |->
                     IF q = lockFile /\ pc[q] \in LoopPcs THEN TRUE
                     ELSE signalled[q]]
  /\ UNCHANGED <<files, lockFile, docs, clock, valid_commands, idio, mode, frame,
                 trace>>

\* a SIGTERM handler that drains: a batch that is built is sent before the
\* daemon exits
TerminateDrain(p) ==
  /\ signalled[p]
  /\ pc[p] \in LoopPcs
  /\ Leave(p, "terminated")
  /\ IF pc[p] = "batch"
       THEN /\ docs' = [docs EXCEPT ![frame[p].fid] =
                          BatchUpdate(@, frame[p].requests).doc]
            /\ Received("batchUpdate")
            /\ history' = Append(history, [cmd |-> frame[p].cmd,
                                           output |-> frame[p].output])
            /\ UNCHANGED <<executed, cycles>>
       ELSE UNCHANGED <<docs, trace>>
  /\ UNCHANGED <<files, clock, valid_commands, idio, mode>>

\* the SIGTERM handler of DaemonContext raises SystemExit in the daemon
Terminate(p) ==
  /\ signalled[p]
  /\ pc[p] \in LoopPcs
  /\ Leave(p, "terminated")
  /\ UNCHANGED <<files, docs, clock, valid_commands, idio, mode, trace>>

\* the operator puts the credentials file of the config in place
InstallCredentials ==
  /\ ~credentials
  /\ credentials' = TRUE
  /\ UNCHANGED <<logFile, storageDir, tokenFile, fidFile, lockFile, docs,
                 clock, valid_commands, idio, pc, mode, frame, signalled, trace>>

(***************************************************************************)
(* start_daemon_process and setup.                                         *)
(***************************************************************************)
\* a start that looks for the credentials file only after setup
StartDaemonProcessSetupFirst(p) ==
  /\ pc[p] = "start"
  /\ IF needs_setup(storageDir, fidFile # 0, tokenFile)
       THEN Goto(p, "setup_auth") /\ storageDir' = TRUE
     ELSE IF ~credentials
       THEN Goto(p, "ValueError") /\ UNCHANGED storageDir
     ELSE Goto(p, "daemonize") /\ UNCHANGED storageDir
  /\ UNCHANGED <<credentials, logFile, tokenFile, fidFile, docs, clock,
                 valid_commands, idio, mode, frame, trace>>

\* start_daemon_process up to the DaemonContext: the credentials file must
\* exist; setup runs when utils.needs_setup says so
StartDaemonProcess(p) ==
  /\ pc[p] = "start"
  /\ IF ~credentials
       THEN Goto(p, "ValueError") /\ UNCHANGED storageDir
     ELSE IF needs_setup(storageDir, fidFile # 0, tokenFile)
       THEN Goto(p, "setup_auth") /\ storageDir' = TRUE
     ELSE Goto(p, "daemonize") /\ UNCHANGED storageDir
  /\ UNCHANGED <<credentials, logFile, tokenFile, fidFile, docs, clock,
                 valid_commands, idio, mode, frame, trace>>

\* _get_http_client in setup: the OAuth flow stores the token
GetHttpClient(p) ==
  /\ pc[p] = "setup_auth"
  /\ tokenFile' = TRUE
  /\ Goto(p, "create_file")
  /\ UNCHANGED <<credentials, logFile, storageDir, fidFile, docs, clock,
                 valid_commands, idio, mode, frame, trace>>

\* _create_file: a new empty document, its id written to FILE_ID_PATH
CreateFile(p) ==
  /\ pc[p] = "create_file"
  /\ docs' = Append(docs, EmptyDoc)
  /\ fidFile' = Len(docs) + 1
  /\ frame' = [frame EXCEPT ![p].fid = Len(docs) + 1]
  /\ Goto(p, "add_table_1")
  /\ UNCHANGED <<credentials, logFile, storageDir, tokenFile, clock,
                 valid_commands, idio, mode, trace>>

\* a batch sent to the Docs service; the process goes on to `next`, or ends
\* when the service rejects the batch
Submit(p, batch, next) ==
  LET r == BatchUpdate(docs[frame[p].fid], batch)
  IN /\ Received("batchUpdate")
     /\ docs' = [docs EXCEPT ![frame[p].fid] = r.doc]
     /\ IF r.ok THEN Goto(p, next) /\ UNCHANGED frame
                ELSE Leave(p, "BadRequest")

\* _add_tables: one batch per table (col = 1, then col = 3)
AddTable(p) ==
  /\ pc[p] \in {"add_table_1", "add_table_3"}
  /\ IF pc[p] = "add_table_1"
       THEN Submit(p, AddTableRequests(1), "add_table_3")
       ELSE Submit(p, AddTableRequests(3), "add_tables_get")
  /\ UNCHANGED <<files, clock, valid_commands, idio, mode, executed, cycles,
                 history>>

\* _add_tables: the document is fetched and the header batch built from it
AddTablesGet(p) ==
  /\ pc[p] = "add_tables_get"
  /\ Received("get")
  /\ IF AddTablesShape(docs[frame[p].fid])
       THEN /\ frame' = [frame EXCEPT
                           ![p].requests = HeaderRequests(docs[frame[p].fid])]
            /\ Goto(p, "add_tables_text")
       ELSE Leave(p, "IndexError")
  /\ UNCHANGED <<files, docs, clock, valid_commands, idio, mode, executed, cycles,
                 history>>

\* _add_tables: the header batch is sent; setup returns and start goes on
AddTablesText(p) ==
  /\ pc[p] = "add_tables_text"
  /\ Submit(p, frame[p].requests, "daemonize")
  /\ UNCHANGED <<files, clock, valid_commands, idio, mode, executed, cycles,
                 history>>

\* an acquire that takes the lock whoever holds it
AcquiresAlways(p) == TRUE

\* an acquire that takes the lock over from a holder that has been signalled
AcquiresFromSignalled(p) == lockFile = 0 \/ signalled[lockFile]

\* PIDLockFile.acquire creates the lock file exclusively: it succeeds exactly
\* when the file does not exist
Acquires(p) == lockFile = 0

\* entering the DaemonContext block: detach, install the signal handlers,
\* acquire the PID lock or fail (AlreadyLocked)
Daemonize(p) ==
  /\ pc[p] = "daemonize"
  /\ IF Acquires(p)
       THEN pc' = [pc EXCEPT ![p] = "run"] /\ lockFile' = p
       ELSE pc' = [pc EXCEPT ![p] = "AlreadyLocked"] /\ UNCHANGED lockFile
  /\ frame' = [frame EXCEPT ![p] = NoFrame]
  /\ UNCHANGED <<files, docs, clock, valid_commands, idio, mode, signalled, trace>>

(***************************************************************************)
(* One poll cycle (_run) and the loop around it.                           *)
(***************************************************************************)
\* _run up to _read_command: the document id is read from FILE_ID_PATH and the
\* document fetched
ReadCommandStep(p) ==
  /\ pc[p] = "run"
  /\ cycles < MaxCycles
  /\ cycles' = cycles + 1
  /\ Received("get")
  /\ IF ReadCommandShape(docs[fidFile])
       THEN /\ frame' = [frame EXCEPT ![p].fid = fidFile,
                                      ![p].cmd = ReadCommand(docs[fidFile])]
            /\ Goto(p, "execute")
       ELSE Leave(p, "IndexError")
  /\ UNCHANGED <<files, docs, clock, valid_commands, idio, mode, executed, history>>

\* _execute_command raising on a command that is not whitelisted
ExecuteCommandRejectRaises(p) ==
  LET decision == GateDecision(frame[p].cmd, valid_commands)
  IN /\ pc[p] = "execute"
     /\ IF decision = "invalid"
          THEN Leave(p, "ValueError")
          ELSE /\ Goto(p, IF decision = "run" THEN "subprocess"
                          ELSE "write_output")
               /\ frame' = [frame EXCEPT ![p].output =
                              IF decision = "none" THEN None ELSE @]
     /\ executed' = IF decision = "run"
                      THEN Append(executed, Split(frame[p].cmd))
                      ELSE executed
     /\ UNCHANGED <<files, docs, clock, valid_commands, idio, mode, calls, cycles,
                    history>>

\* _execute_command up to subprocess.run
ExecuteCommand(p) ==
  LET decision == GateDecision(frame[p].cmd, valid_commands)
  IN /\ pc[p] = "execute"
     /\ Goto(p, IF decision = "run" THEN "subprocess" ELSE "write_output")
     /\ frame' = [frame EXCEPT ![p].output =
                    IF decision = "none" THEN None
                    ELSE IF decision = "invalid" THEN Str(OUTPUT_INVALID_CMD)
                    ELSE @]
     /\ executed' = IF decision = "run"
                      THEN Append(executed, Split(frame[p].cmd))
                      ELSE executed
     /\ UNCHANGED <<files, docs, clock, valid_commands, idio, mode, calls, cycles,
                    history>>

\* subprocess.run returns; stdout is whatever the program wrote
SubprocessRun(p, stdouts) ==
  /\ pc[p] = "subprocess"
  /\ \E stdout \in stdouts :
       frame' = [frame EXCEPT ![p].stdout = stdout,
                              ![p].output = RunResult(stdout)]
  /\ Goto(p, "write_output")
  /\ UNCHANGED <<files, docs, clock, valid_commands, idio, mode, trace>>

\* subprocess.run raises: the whitelisted program cannot be started
SubprocessError(p) ==
  /\ pc[p] = "subprocess"
  /\ Leave(p, "OSError")
  /\ UNCHANGED <<files, docs, clock, valid_commands, idio, mode, trace>>

\* _write_output without the test for None
WriteOutputNoNoneCheck(p) ==
  /\ pc[p] = "write_output"
  /\ Received("get")
  /\ IF WriteOutputShape(docs[frame[p].fid])
       THEN /\ frame' = [frame EXCEPT ![p].requests =
                  WriteRequests(docs[frame[p].fid], frame[p].cmd,
                                frame[p].output.str, clock)]
            /\ Goto(p, "batch")
       ELSE Leave(p, "IndexError")
  /\ UNCHANGED <<files, docs, clock, valid_commands, idio, mode, executed, cycles,
                 history>>

\* _write_output up to the batch: nothing for None (and _run returns), else
\* the document is fetched and the batch built from it
WriteOutput(p) ==
  /\ pc[p] = "write_output"
  /\ IF frame[p].output = None
       THEN /\ Goto(p, "sleep")
            /\ history' = Append(history, [cmd |-> frame[p].cmd,
                                           output |-> frame[p].output])
            /\ UNCHANGED <<frame, calls>>
     ELSE IF WriteOutputShape(docs[frame[p].fid])
       THEN /\ Received("get")
            /\ frame' = [frame EXCEPT ![p].requests =
                  WriteRequests(docs[frame[p].fid], frame[p].cmd,
                                frame[p].output.str, clock)]
            /\ Goto(p, "batch")
            /\ UNCHANGED history
     ELSE /\ Received("get")
          /\ Leave(p, "IndexError")
          /\ UNCHANGED history
  /\ UNCHANGED <<files, docs, clock, valid_commands, idio, mode, executed, cycles>>

\* a write that consumes the command: after the batch the command cell is
\* cleared
SubmitBatchClearsCommand(p) ==
  LET r == BatchUpdate(docs[frame[p].fid], frame[p].requests)
      cell == TableCells(r.doc, Content(r.doc)[3], 2)[1]
      cleared == SubSeq(r.doc, 1, cell + 1)
                   \o SubSeq(r.doc, FirstAt(r.doc, cell + 1, NL) + 1,
                             Len(r.doc))
  IN /\ pc[p] = "batch"
     /\ Received("batchUpdate")
     /\ IF r.ok
          THEN /\ docs' = [docs EXCEPT ![frame[p].fid] = cleared]
               /\ history' = Append(history, [cmd |-> frame[p].cmd,
                                              output |-> frame[p].output])
               /\ Goto(p, "sleep") /\ UNCHANGED frame
          ELSE /\ Leave(p, "BadRequest")
               /\ UNCHANGED <<docs, history>>
     /\ UNCHANGED <<files, clock, valid_commands, idio, mode, executed,
                    cycles>>

\* _write_output: the batch is sent; _run returns
SubmitBatch(p) ==
  /\ pc[p] = "batch"
  /\ Submit(p, frame[p].requests, "sleep")
  /\ history' = IF BatchUpdate(docs[frame[p].fid], frame[p].requests).ok
                  THEN Append(history, [cmd |-> frame[p].cmd,
                                        output |-> frame[p].output])
                  ELSE history
  /\ UNCHANGED <<files, clock, valid_commands, idio, mode, executed, cycles>>

\* time.sleep(sleep_time), then the next cycle; the locals of the _run that
\* returned are gone
Sleep(p) ==
  /\ pc[p] = "sleep"
  /\ clock' = clock + sleep_time
  /\ Goto(p, "run")
  /\ frame' = [frame EXCEPT ![p] = NoFrame]
  /\ UNCHANGED <<files, docs, valid_commands, idio, mode, trace>>

\* a failed request caught inside the loop: the cycle is given up and the
\* daemon sleeps until the next one
ApiFailureCaught(p) ==
  /\ pc[p] \in ApiPcs
  /\ pc[p] = "write_output" => frame[p].output # None
  /\ IF pc[p] \in LoopPcs
       THEN Goto(p, "sleep") /\ UNCHANGED frame
       ELSE Leave(p, "HttpError")
  /\ UNCHANGED <<files, docs, clock, valid_commands, idio, mode, trace>>

\* a request to Google fails (network, quota, auth): nothing catches it
ApiFailure(p) ==
  /\ pc[p] \in ApiPcs
  /\ pc[p] = "write_output" => frame[p].output # None
  /\ Leave(p, "HttpError")
  /\ UNCHANGED <<files, docs, clock, valid_commands, idio, mode, trace>>

(***************************************************************************)
(* The user, who types into the command cell of a document.                *)
(***************************************************************************)
\* the document with the first paragraph of its command cell replaced
SetCommand(doc, text) ==
  LET cell == TableCells(doc, Content(doc)[3], 2)[1]
  IN SubSeq(doc, 1, cell + 1) \o text
       \o SubSeq(doc, FirstAt(doc, cell + 1, NL) + 1, Len(doc))

UserType(commands) ==
  \E f \in 1..Len(docs) :
    /\ ReadCommandShape(docs[f])
    /\ LET doc == docs[f]
           cell == TableCells(doc, Content(doc)[3], 2)[1]
           typed == SubSeq(doc, cell + 2, FirstAt(doc, cell + 1, NL))
       IN \E text \in commands \ {typed} :
            docs' = [docs EXCEPT ![f] = SetCommand(doc, text)]
    /\ UNCHANGED <<files, lockFile, clock, valid_commands, idio, pc, mode, frame,
                   signalled, trace>>

(***************************************************************************)
(* A file that holds an identifier, at the level of its text.              *)
(***************************************************************************)
\* _create_file stores the id: with open(FILE_ID_PATH, 'w') as f: f.write(fid)
WriteFid(fid) ==
  /\ id_text' = Str(fid)
  /\ id_file' = Str(WriteFile(id_file, fid))
  /\ id_read' = None
  /\ UNCHANGED <<files, lockFile, docs, clock, valid_commands, pc, mode,
                 frame, signalled, trace>>

\* utils.read_id(path) on the file as it is; a missing file raises and
\* nothing is returned
ReadId ==
  /\ id_read' = IF id_file = None THEN None ELSE Str(read_id(id_file.str))
  /\ UNCHANGED <<files, lockFile, docs, clock, valid_commands, pc, mode,
                 frame, signalled, trace, id_text, id_file>>

(***************************************************************************)
(* Inputs.                                                                 *)
(***************************************************************************)
CmdAlphabet == {"l", "s", " "}
OutAlphabet == {"x", " ", "\n"}
\* raw commands and captured outputs, up to MaxLen characters
RawCommands == Texts(CmdAlphabet, MaxLen)
Stdouts == Texts(OutAlphabet, MaxLen)
\* whitelists, the empty one included
Whitelists == SUBSET {<<"l">>, <<"l", "s">>}
\* the texts a file may hold and the program may write: identifiers, and
\* texts of one or more lines
IdAlphabet == {"1", "a", "\n"}
FileTexts == Texts(IdAlphabet, MaxLen)
\* what the user types and what a program prints where the text of the cells
\* is not the question
FewCommands == {<<>>, <<"l">>}
FewStdouts == {<<"x">>}
\* what the user types and what a program prints in the poll cycles: no
\* command, a whitelisted one, one that is not, one with an argument and
\* spaces around it; no output, and two lines of it
UserCommands == {<<>>, <<"l">>, <<"l", "s">>, <<" ", "l", " ", "s", " ">>}
CycleStdouts == {<<>>, <<"x", "\n", "y", "\n">>}

(***************************************************************************)
(* The whole program, from a fresh installation.                           *)
(***************************************************************************)
Init ==
  /\ credentials = FALSE
  /\ logFile = FALSE /\ storageDir = FALSE /\ tokenFile = FALSE
  /\ fidFile = 0 /\ lockFile = 0 /\ docs = <<>> /\ clock = 0
  /\ valid_commands = {<<"l">>}
  /\ pc = [p \in Procs |-> "idle"]
  /\ mode = [p \in Procs |-> "none"]
  /\ frame = [p \in Procs |-> NoFrame]
  /\ signalled = [p \in Procs |-> FALSE]
  /\ executed = <<>>
  /\ calls = [get |-> 0, batchUpdate |-> 0]
  /\ cycles = 0
  /\ history = <<>>
  /\ id_text = None /\ id_file = None /\ id_read = None

Command(p) ==
  \/ \E m \in Modes : Main(p, m)
  \/ Stop(p)
  \/ Terminate(p)

Setup(p) ==
  \/ StartDaemonProcess(p)
  \/ GetHttpClient(p)
  \/ CreateFile(p)
  \/ AddTable(p)
  \/ AddTablesGet(p)
  \/ AddTablesText(p)
  \/ Daemonize(p)

Cycle(p, stdouts) ==
  \/ ReadCommandStep(p)
  \/ ExecuteCommand(p)
  \/ SubprocessRun(p, stdouts)
  \/ SubprocessError(p)
  \/ WriteOutput(p)
  \/ SubmitBatch(p)
  \/ Sleep(p)
  \/ ApiFailure(p)

Next ==
  \/ \E p \in Procs : Command(p) \/ Setup(p) \/ Cycle(p, FewStdouts)
  \/ UserType(FewCommands)
  \/ InstallCredentials

Spec == Init /\ [][Next]_vars

(***************************************************************************)
(* One daemon on a document that setup has made, with commands and outputs *)
(* of several lengths.                                                     *)
(***************************************************************************)
CycleInit ==
  /\ credentials = TRUE /\ logFile = TRUE /\ storageDir = TRUE
  /\ tokenFile = TRUE /\ fidFile = 1 /\ lockFile = 0
  /\ docs = <<TemplateDoc>> /\ clock = 0
  /\ valid_commands = {<<"l">>}
  /\ pc = [p \in Procs |-> IF p = 1 THEN "start" ELSE "idle"]
  /\ mode = [p \in Procs |-> IF p = 1 THEN "start" ELSE "none"]
  /\ frame = [p \in Procs |-> NoFrame]
  /\ signalled = [p \in Procs |-> FALSE]
  /\ executed = <<>>
  /\ calls = [get |-> 0, batchUpdate |-> 0]
  /\ cycles = 0
  /\ history = <<>>
  /\ id_text = None /\ id_file = None /\ id_read = None

CycleNext ==
  \/ StartDaemonProcess(1)
  \/ Daemonize(1)
  \/ Cycle(1, CycleStdouts)
  \/ UserType(UserCommands)

CycleSpec == CycleInit /\ [][CycleNext]_vars

(***************************************************************************)
(* _execute_command alone, called with any raw command and any whitelist.  *)
(* It has returned when the process is at "write_output", with its return  *)
(* value in output, and has raised when the process has ended.             *)
(***************************************************************************)
GateInit ==
  /\ credentials = TRUE /\ logFile = TRUE /\ storageDir = TRUE
  /\ tokenFile = TRUE /\ fidFile = 0 /\ lockFile = 0
  /\ docs = <<>> /\ clock = 0
  /\ valid_commands \in Whitelists
  /\ pc = [p \in Procs |-> IF p = 1 THEN "execute" ELSE "idle"]
  /\ mode = [p \in Procs |-> "none"]
  /\ \E c \in RawCommands :
       frame = [p \in Procs |->
                  IF p = 1 THEN [NoFrame EXCEPT !.cmd = c] ELSE NoFrame]
  /\ signalled = [p \in Procs |-> FALSE]
  /\ executed = <<>>
  /\ calls = [get |-> 0, batchUpdate |-> 0]
  /\ cycles = 0
  /\ history = <<>>
  /\ id_text = None /\ id_file = None /\ id_read = None

GateNext ==
  \/ ExecuteCommand(1)
  \/ SubprocessRun(1, Stdouts)
  \/ SubprocessError(1)

GateSpec == GateInit /\ [][GateNext]_vars

(***************************************************************************)
(* start on every combination of what exists at the three paths that       *)
(* needs_setup is given; a file-id file that exists names a document.      *)
(***************************************************************************)
SetupInit ==
  /\ credentials = TRUE /\ logFile = TRUE
  /\ storageDir \in BOOLEAN /\ tokenFile \in BOOLEAN
  /\ fidFile \in {0, 1} /\ lockFile = 0
  /\ docs = IF fidFile = 1 THEN <<TemplateDoc>> ELSE <<>>
  /\ clock = 0
  /\ valid_commands = {<<"l">>}
  /\ pc = [p \in Procs |-> IF p = 1 THEN "start" ELSE "idle"]
  /\ mode = [p \in Procs |-> IF p = 1 THEN "start" ELSE "none"]
  /\ frame = [p \in Procs |-> NoFrame]
  /\ signalled = [p \in Procs |-> FALSE]
  /\ executed = <<>>
  /\ calls = [get |-> 0, batchUpdate |-> 0]
  /\ cycles = 0
  /\ history = <<>>
  /\ id_text = None /\ id_file = None /\ id_read = None

SetupNext ==
  \/ Setup(1)
  \/ Cycle(1, FewStdouts)
  \/ UserType(FewCommands)

SetupSpec == SetupInit /\ [][SetupNext]_vars

(***************************************************************************)
(* read_id alone, on a file that is absent or holds any text, and that the  *)
(* program writes identifiers to.                                          *)
(***************************************************************************)
IdInit ==
  /\ credentials = FALSE
  /\ logFile = FALSE /\ storageDir = FALSE /\ tokenFile = FALSE
  /\ fidFile = 0 /\ lockFile = 0 /\ docs = <<>> /\ clock = 0
  /\ valid_commands = {<<"l">>}
  /\ pc = [p \in Procs |-> "idle"]
  /\ mode = [p \in Procs |-> "none"]
  /\ frame = [p \in Procs |-> NoFrame]
  /\ signalled = [p \in Procs |-> FALSE]
  /\ executed = <<>>
  /\ calls = [get |-> 0, batchUpdate |-> 0]
  /\ cycles = 0
  /\ history = <<>>
  /\ id_text = None
  /\ id_file \in {None} \cup {Str(t) : t \in FileTexts}
  /\ id_read = None

IdNext ==
  \/ \E fid \in FileTexts : WriteFid(fid)
  \/ ReadId

IdSpec == IdInit /\ [][IdNext]_vars

(***************************************************************************)
(* Properties of _execute_command, under GateSpec.  The process has made   *)
(* the call once it has left "execute"; the call has returned at           *)
(* "write_output".                                                         *)
(***************************************************************************)
\* the positions of the characters of a text that are not whitespace
Inked(s) == {i \in 1..Len(s) : s[i] \notin Whitespace}
Least(S) == CHOOSE i \in S : \A j \in S : i <= j
Greatest(S) == CHOOSE i \in S : \A j \in S : i >= j

\* the first whitespace-separated token of a text that has one: from its first
\* character that is not whitespace up to the next whitespace
FirstToken(s) ==
  LET a == Least(Inked(s))
      W == {i \in a..Len(s) : s[i] \in Whitespace}
  IN SubSeq(s, a, IF W = {} THEN Len(s) ELSE Least(W) - 1)

\* a text with the whitespace at its two ends removed
Trimmed(s) ==
  IF Inked(s) = {} THEN <<>> ELSE SubSeq(s, Least(Inked(s)), Greatest(Inked(s)))

Called == pc[1] # "execute"
Returned == pc[1] = "write_output"

\* C1: a raw command whose first token is not in the whitelist returns
\* OUTPUT_INVALID_CMD, and nothing is handed to subprocess.run.
C1_NotWhitelistedRejected ==
  LET c == frame[1].cmd
  IN (Called /\ Inked(c) # {} /\ FirstToken(c) \notin valid_commands)
       => /\ Returned
          /\ frame[1].output = Str(OUTPUT_INVALID_CMD)
          /\ executed = <<>>

\* C1 witness: a command of two tokens whose second token is whitelisted and
\* whose first is not has been rejected.
C1_Witness ==
  /\ Returned
  /\ frame[1].cmd = <<"s", " ", "l">>
  /\ valid_commands = {<<"l">>}
  /\ frame[1].output = Str(OUTPUT_INVALID_CMD)
  /\ executed = <<>>

\* C2: an empty or whitespace-only raw command returns None, whatever the
\* whitelist; None is neither message; nothing is handed to subprocess.run.
C2_BlankReturnsNone ==
  (pc[1] \in {"subprocess", "write_output"} /\ Inked(frame[1].cmd) = {})
    => /\ Returned
       /\ frame[1].output = None
       /\ frame[1].output # Str(OUTPUT_INVALID_CMD)
       /\ frame[1].output # Str(OUTPUT_NO_OUTPUT)
       /\ executed = <<>>

\* C2 witness: a command of spaces only has returned None under the empty
\* whitelist.
C2_Witness ==
  /\ Returned
  /\ frame[1].cmd = <<" ", " ">>
  /\ valid_commands = {}
  /\ frame[1].output = None

\* C3: when a whitelisted command has run, the return value is a str that is
\* not empty: the trimmed standard output when that is not empty, and
\* OUTPUT_NO_OUTPUT when it is.
C3_RunReturnsText ==
  (Returned /\ executed # <<>>)
    => /\ ~frame[1].output.none
       /\ frame[1].output.str # <<>>
       /\ frame[1].output.str =
            IF Trimmed(frame[1].stdout) # <<>>
              THEN Trimmed(frame[1].stdout)
              ELSE OUTPUT_NO_OUTPUT

\* C3 witness: a run whose output had whitespace at both ends has returned
\* the text between.
C3_Witness ==
  /\ Returned
  /\ executed = << <<"l", "s">> >>
  /\ frame[1].stdout = <<"\n", "x", " ">>
  /\ frame[1].output = Str(<<"x">>)

(***************************************************************************)
(* Properties of _write_output and of the poll cycle, under CycleSpec.     *)
(* _write_output is called at "write_output"; it has built its batch at    *)
(* "batch" and has returned at "sleep".                                    *)
(***************************************************************************)
\* the output table of a document: the block before the last
OutputTable(doc) == Content(doc)[Len(Content(doc)) - 1]
\* the number of rows of the output table
OutputRows(doc) == Len(TableRows(doc, OutputTable(doc)))
\* the texts of row r (1-based) of the output table
OutputRow(doc, r) == [c \in 1..3 |-> CellText(doc, OutputTable(doc), r, c)]

\* C4: _write_output called with output None returns without a request to
\* the service (no get, no batchUpdate) and leaves every document as it is.
C4_NoneWritesNothing ==
  [][\A p \in Procs :
       (pc[p] = "write_output" /\ frame[p].output = None /\ pc'[p] # pc[p])
         => /\ pc'[p] \in {"sleep", "terminated"}
            /\ calls' = calls
            /\ docs' = docs]_vars

\* C4 witness: the first cycle found no command; _write_output has returned
\* and the service has received the one get of _read_command and no batch.
C4_Witness ==
  /\ pc[1] = "sleep"
  /\ frame[1].output = None
  /\ Len(history) = 1
  /\ calls = [get |-> 1, batchUpdate |-> 0]
  /\ docs = <<TemplateDoc>>

\* C5: for an output that is not None the batch is four edits: the datetime
\* at column 2 of the last row, the output at column 1, the command at column
\* 0, at strictly decreasing indexes, then a row below the last row.  Applied
\* in that order to the fetched document, the batch succeeds and puts each
\* text at the front of its cell of the previously last row, changes nothing
\* before that row, and leaves a new row of three empty cells as the last.
C5_OrderedEditsLandInCells ==
  [][\A p \in Procs :
       (pc[p] = "write_output" /\ pc'[p] = "batch")
         => \A doc \in {docs[frame[p].fid]} :
            \A tbl \in {OutputTable(doc)} :
            \A rows \in {TableRows(doc, tbl)} :
            \A cells \in {TableCells(doc, tbl, Len(rows))} :
            \A r \in {BatchUpdate(doc, frame'[p].requests)} :
            \A new \in {OutputTable(r.doc)} :
              LET n == Len(rows)
                  reqs == frame'[p].requests
                  texts == <<frame[p].cmd, frame[p].output.str,
                             Strftime(clock)>>
              IN /\ Len(reqs) = 4
                 /\ reqs[1] = InsertTextRequest(cells[3] + 1, texts[3])
                 /\ reqs[2] = InsertTextRequest(cells[2] + 1, texts[2])
                 /\ reqs[3] = InsertTextRequest(cells[1] + 1, texts[1])
                 /\ reqs[4] = InsertTableRowRequest(tbl.startIndex, n - 1)
                 /\ reqs[1].index > reqs[2].index
                 /\ reqs[2].index > reqs[3].index
                 /\ r.ok
                 /\ Len(TableRows(r.doc, new)) = n + 1
                 /\ \A c \in 1..3 :
                      CellText(r.doc, new, n, c) =
                        texts[c] \o CellText(doc, tbl, n, c)
                 /\ SubSeq(r.doc, 1, rows[n] + 1) = SubSeq(doc, 1, rows[n] + 1)
                 /\ Len(TableCells(r.doc, new, n + 1)) = 3
                 /\ \A c \in 1..3 : CellText(r.doc, new, n + 1, c) = <<>>]_vars

\* C5 witness: a command with an argument whose output has two lines has been
\* written: its three texts are in row 1 and an empty row 2 follows.
C5_Witness ==
  /\ pc[1] = "sleep"
  /\ frame[1].cmd = <<"l", " ", "s">>
  /\ OutputRows(docs[1]) = 3
  /\ OutputRow(docs[1], 2) =
       << <<"l", " ", "s">>, <<"x", "\n", "y">>, Strftime(0) >>
  /\ OutputRow(docs[1], 3) = << <<>>, <<>>, <<>> >>

\* C6 as stated: every completed poll cycle has added one row to the output
\* table, which setup made with two.
C6_OneRowPerCycle ==
  OutputRows(docs[fidFile]) = 2 + Len(history)

\* C6: a poll cycle that completes with a command in the command cell adds
\* exactly one row at the end of the output table; a cycle that completes
\* with a blank command cell (its output is None) leaves the document as it
\* is; nothing else changes the number of rows, and the rows before the last,
\* row 0 (the header) among them, are never changed.
C6_OneRowPerCommand ==
  [][\A doc \in {docs[fidFile]} : \A after \in {docs'[fidFile]} :
       LET completes == Len(history') = Len(history) + 1
           cycle == history'[Len(history')]
           writes == completes /\ cycle.output # None
       IN /\ completes => (cycle.output = None <=> cycle.cmd = <<>>)
          /\ after = doc => ~writes
          /\ after # doc =>
               \A tbl \in {OutputTable(doc)} : \A new \in {OutputTable(after)} :
               \A rows \in {TableRows(doc, tbl)} :
               \A grown \in {TableRows(after, new)} :
                 /\ Len(grown) = IF writes THEN Len(rows) + 1 ELSE Len(rows)
                 /\ SubSeq(after, new.startIndex + 1, grown[Len(rows)] + 1)
                      = SubSeq(doc, tbl.startIndex + 1, rows[Len(rows)] + 1)
                 /\ \A c \in 1..3 :
                      CellText(after, new, 1, c) = CellText(doc, tbl, 1, c)]_vars

\* C6 witness: two cycles have completed, the first with a command and the
\* second without one, and the output table has one row more than at setup
\* under an unchanged header.
C6_Witness ==
  /\ Len(history) = 2
  /\ history[1].output # None
  /\ history[2].output = None
  /\ history[2].cmd = <<>>
  /\ OutputRows(docs[fidFile]) = 3
  /\ OutputRow(docs[fidFile], 1) = OutputRow(TemplateDoc, 1)

(***************************************************************************)
(* Properties of the command line and of the PID lock, under Spec.  A      *)
(* process is inside the poll loop at the positions of LoopPcs; it attempts *)
(* to acquire the lock in its step from "daemonize".                       *)
(***************************************************************************)
\* the processes inside the poll loop
Looping == {p \in Procs : pc[p] \in LoopPcs}

\* C7: at any time at most one process is inside the poll loop, and it is
\* the one whose pid the lock file holds; a start that attempts the lock
\* while the lock file exists ends with AlreadyLocked in that step, which
\* reads no document, runs no command and writes nothing, and it stays ended.
C7_MutualExclusion ==
  /\ [](\A p \in Looping : Looping = {p} /\ lockFile = p)
  /\ [][\A p \in Procs :
          /\ (pc[p] = "daemonize" /\ lockFile # 0 /\ pc'[p] # pc[p])
               => /\ pc'[p] = "AlreadyLocked"
                  /\ UNCHANGED <<lockFile, docs, trace>>
          /\ pc[p] = "AlreadyLocked" => pc'[p] = "AlreadyLocked"]_vars

\* C7 witness: a start has failed with AlreadyLocked while another process
\* is inside the poll loop and holds the lock.
C7_Witness ==
  \E p, q \in Procs :
    /\ mode[p] = "start" /\ pc[p] = "AlreadyLocked"
    /\ pc[q] \in LoopPcs /\ lockFile = q

\* C8: restart goes from stop to start in one step, the signalled process
\* still where it was; when its start attempts the lock while the signalled
\* process still holds it, it ends with AlreadyLocked and stays ended; and
\* when the signalled process leaves the poll loop, the lock file is gone and
\* no process is inside the poll loop.
C8_RestartRace ==
  [][\A p \in Procs :
       /\ (mode[p] = "restart" /\ pc[p] = "stop" /\ lockFile # 0
             /\ pc'[p] # pc[p])
            => pc'[p] = "start" /\ pc'[lockFile] = pc[lockFile]
       /\ (mode[p] = "restart" /\ pc[p] = "daemonize" /\ lockFile # 0
             /\ signalled[lockFile] /\ pc'[p] # pc[p])
            => pc'[p] = "AlreadyLocked"
       /\ (mode[p] = "restart" /\ pc[p] = "AlreadyLocked")
            => pc'[p] = "AlreadyLocked"
       /\ (signalled[p] /\ pc[p] \in LoopPcs /\ pc'[p] \notin LoopPcs)
            => lockFile' = 0 /\ \A q \in Procs : pc'[q] \notin LoopPcs]_vars

\* C8 witness: the start of a restart has failed with AlreadyLocked, the
\* process it signalled has since terminated, and no daemon is left.
C8_Witness ==
  \E p, q \in Procs :
    /\ mode[p] = "restart" /\ pc[p] = "AlreadyLocked"
    /\ pc[q] = "terminated"
    /\ lockFile = 0
    /\ \A r \in Procs : pc[r] \notin LoopPcs

\* C9: stop, with a lock file, marks a SIGTERM pending for the process whose
\* pid the lock file holds and for no other; in that same step it returns
\* (or goes on to start, for restart) while the signalled process is still
\* where it was; the lock file, the file-id file and the documents are
\* unchanged.
C9_StopSignalsOnly ==
  [][\A p \in Procs :
       (pc[p] = "stop" /\ lockFile # 0 /\ pc'[p] # pc[p])
         => /\ signalled' = [signalled EXCEPT ![lockFile] = TRUE]
            /\ pc'[p] = IF mode[p] = "restart" THEN "start" ELSE "exited"
            /\ pc'[lockFile] = pc[lockFile]
            /\ UNCHANGED <<lockFile, fidFile, docs>>]_vars

\* C9 witness: stop has returned; the daemon it signalled is still inside
\* the poll loop and the lock file still holds its pid.
C9_Witness ==
  \E p, q \in Procs :
    /\ mode[p] = "stop" /\ pc[p] = "exited"
    /\ signalled[q] /\ pc[q] \in LoopPcs
    /\ lockFile = q /\ fidFile # 0

\* C10: start without the credentials file ends with ValueError in its first
\* step and stays ended; the step creates no directory, token, file-id file
\* or document, leaves the lock file alone and starts no poll cycle.
C10_NoCredentialsFatal ==
  [][\A p \in Procs :
       /\ (pc[p] = "start" /\ ~credentials /\ pc'[p] # pc[p])
            => /\ pc'[p] = "ValueError"
               /\ UNCHANGED <<files, lockFile, docs, trace>>
       /\ pc[p] = "ValueError" => pc'[p] = "ValueError"]_vars

\* C10 witness: on a fresh installation without credentials, start has
\* failed: nothing was set up, no lock is held and no cycle has begun.
C10_Witness ==
  \E p \in Procs :
    /\ mode[p] = "start" /\ pc[p] = "ValueError"
    /\ ~credentials /\ ~storageDir /\ ~tokenFile /\ fidFile = 0
    /\ docs = <<>> /\ lockFile = 0 /\ cycles = 0

\* C11: a mode outside start, stop and restart ends the program with
\* ValueError, and up to that error no signal was sent, nothing was set up,
\* no lock was acquired, no poll cycle began and no file was written.
C11_InvalidModeNoSideEffect ==
  [][\A p \in Procs :
       (pc[p] = "idle" /\ pc'[p] # pc[p]
          /\ mode'[p] \notin {"start", "stop", "restart"})
         => /\ pc'[p] = "ValueError"
            /\ UNCHANGED <<files, lockFile, docs, signalled, trace>>]_vars

(***************************************************************************)
(* Properties of the poll loop when a cycle is rejected or fails.          *)
(***************************************************************************)
\* C12: a command whose first token is not whitelisted does not end the
\* daemon: _execute_command returns the invalid-command message and runs
\* nothing; when the batch of that cycle is applied, the previously last row
\* of the output table holds the command, the message and the datetime, and a
\* row has been added; and after the cycle the daemon sleeps sleep_time and is
\* at the start of the next cycle, still holding the lock.
C12_RejectionRecoverable ==
  [][\A p \in Procs :
       /\ (pc[p] = "execute" /\ Inked(frame[p].cmd) # {}
             /\ FirstToken(frame[p].cmd) \notin valid_commands
             /\ pc'[p] # pc[p])
            => /\ pc'[p] = "write_output"
               /\ frame'[p].output = Str(OUTPUT_INVALID_CMD)
               /\ executed' = executed
       /\ (pc[p] = "batch" /\ frame[p].output = Str(OUTPUT_INVALID_CMD)
             /\ pc'[p] = "sleep")
            => \A doc \in {docs[frame[p].fid]} :
               \A after \in {docs'[frame[p].fid]} :
                 /\ OutputRows(after) = OutputRows(doc) + 1
                 /\ OutputRow(after, OutputRows(doc)) =
                      <<frame[p].cmd, OUTPUT_INVALID_CMD, Strftime(clock)>>
                 /\ history' = Append(history,
                                      [cmd |-> frame[p].cmd,
                                       output |-> Str(OUTPUT_INVALID_CMD)])
       /\ (pc[p] = "sleep" /\ pc'[p] # pc[p])
            => /\ pc'[p] = "run"
               /\ clock' = clock + sleep_time
               /\ lockFile' = p]_vars

\* C12 witness: the first cycle rejected "ls" and wrote its row; the daemon
\* slept and is in its second cycle.
C12_Witness ==
  /\ history = << [cmd |-> <<"l", "s">>, output |-> Str(OUTPUT_INVALID_CMD)] >>
  /\ OutputRow(docs[1], 2) = << <<"l", "s">>, OUTPUT_INVALID_CMD, Strftime(0) >>
  /\ executed = <<>>
  /\ cycles = 2 /\ clock = sleep_time
  /\ pc[1] = "execute" /\ lockFile = 1

\* C13: a request of a poll cycle that the service does not receive (the get
\* of _read_command, the get or the batchUpdate of _write_output) ends the
\* daemon with HttpError at that step, unless SIGTERM ends it first: the
\* document and the record of the cycles are as they were, the request is not
\* sent again, the lock is released, and the process stays ended, so that a
\* further cycle is begun only by a process that start or restart launched.
C13_ApiFailureFatal ==
  [][/\ \A p \in Procs :
          /\ (/\ \/ pc[p] \in {"run", "batch"}
                 \/ pc[p] = "write_output" /\ frame[p].output # None
              /\ pc'[p] # pc[p]
              /\ calls' = calls)
               => /\ pc'[p] \in {"HttpError", "terminated"}
                  /\ UNCHANGED <<docs, trace>>
                  /\ lockFile' = 0
          /\ pc[p] = "HttpError" => pc'[p] = "HttpError"
     /\ cycles' # cycles
          => \E q \in Procs : /\ pc[q] = "run" /\ pc'[q] # "run"
                              /\ mode[q] \in {"start", "restart"}]_vars

\* C13 witness: the daemon ran a command and then a request of
\* _write_output failed: the cycle was not completed, the daemon has ended
\* and the lock file is gone.
C13_Witness ==
  \E p \in Procs :
    /\ pc[p] = "HttpError"
    /\ cycles = 1 /\ executed = << <<"l">> >> /\ history = <<>>
    /\ lockFile = 0
    /\ \A q \in Procs : pc[q] \notin LoopPcs

(***************************************************************************)
(* Properties of the functions of utils.py.                                *)
(***************************************************************************)
\* a text of one line: it has no newline
SingleLine(t) == \A i \in 1..Len(t) : t[i] # "\n"

\* C14: when a single-line identifier has been written to a file, read_id
\* on that file returns the identifier, character for character, and the
\* value does not end with a newline.
C14_ReadIdRoundTrip ==
  (id_text # None /\ id_read # None /\ SingleLine(id_text.str))
    => /\ id_read = id_text
       /\ id_read.str = <<>> \/ id_read.str[Len(id_read.str)] # "\n"

\* C14 witness: the identifier "1a" has been written to the file and read_id
\* has returned "1a".
C14_Witness ==
  /\ id_text = Str(<<"1", "a">>)
  /\ id_file = Str(<<"1", "a">>)
  /\ id_read = Str(<<"1", "a">>)

\* C15: start, with the credentials in place, goes to setup exactly when the
\* storage directory is absent, or the file-id file is absent, or the token
\* file is absent, and to the daemon otherwise.
C15_NeedsSetupTruthTable ==
  [][\A p \in Procs :
       (pc[p] = "start" /\ credentials /\ pc'[p] # pc[p])
         => /\ pc'[p] \in {"setup_auth", "daemonize"}
            /\ pc'[p] = "setup_auth"
                 <=> (~storageDir \/ fidFile = 0 \/ ~tokenFile)]_vars

\* C15 witness: with the file-id file present and the token file absent,
\* start has gone to setup.
C15_Witness ==
  /\ pc[1] = "setup_auth"
  /\ fidFile = 1 /\ ~tokenFile
  /\ docs = <<TemplateDoc>>

(***************************************************************************)
(* Properties of the daemon across signals and starts, under Spec.         *)
(***************************************************************************)
\* C16: SIGTERM handled after _execute_command has run a command and before
\* the batch of that cycle is sent ends the daemon in that step: no request
\* is sent, the document and the record of completed cycles are as they
\* were, so the command stays executed without a row, and the process stays
\* ended.
C16_NoGracefulDrain ==
  [][\A p \in Procs :
       /\ (/\ signalled[p]
           /\ pc[p] \in {"write_output", "batch"}
           /\ GateDecision(frame[p].cmd, valid_commands) = "run"
           /\ pc'[p] = "terminated")
            => /\ UNCHANGED <<docs, trace>>
               /\ executed # <<>>
               /\ Len(history) < cycles
               /\ lockFile' = 0
       /\ pc[p] = "terminated" => pc'[p] = "terminated"]_vars

\* C16 witness: the daemon ran "l" in its first cycle and was terminated
\* before the write: the output table still has its header and one empty row.
C16_Witness ==
  \E p \in Procs :
    /\ pc[p] = "terminated"
    /\ executed = << <<"l">> >>
    /\ cycles = 1 /\ history = <<>>
    /\ OutputRows(docs[fidFile]) = 2
    /\ OutputRow(docs[fidFile], 2) = << <<>>, <<>>, <<>> >>

\* the template of setup is complete in a document: the command table and
\* the output table are there, with their header texts
HasTemplate(doc) ==
  /\ AddTablesShape(doc)
  /\ CellText(doc, Content(doc)[3], 1, 1) =
       <<"I", "n", "s", "e", "r", "t", " ", "c", "o", "m",
         "m", "a", "n", "d", " ", "b", "e", "l", "o", "w">>
  /\ CellText(doc, Content(doc)[5], 1, 1) =
       <<"C", "o", "m", "m", "a", "n", "d">>
  /\ CellText(doc, Content(doc)[5], 1, 2) = <<"O", "u", "t", "p", "u", "t">>
  /\ CellText(doc, Content(doc)[5], 1, 3) =
       <<"D", "a", "t", "e", "t", "i", "m", "e">>

\* C17: whenever a daemon begins a poll cycle, the document that the
\* file-id file names has the complete template, whatever starts came
\* before, one whose setup failed after the file-id and the token were
\* stored included.
C17_SetupBeforePolling ==
  [][cycles' # cycles
       => /\ fidFile # 0
          /\ \A doc \in {docs[fidFile]} : HasTemplate(doc)]_vars

(***************************************************************************)
(* Properties of the two tables across poll cycles, under CycleSpec.       *)
(***************************************************************************)
\* a completed cycle that wrote a row
Wrote(cycle) == cycle.output # None

\* C18: in every state, so at the start of every poll cycle, the last row of
\* the output table is empty, and the rows between the header and the last
\* row are, in order, the command and the output of the completed cycles that
\* wrote, each with a datetime; a write puts its three texts in the row that
\* was last; and no step changes a row before the last.
C18_AppendOnlyLog ==
  /\ [](\A doc \in {docs[fidFile]} : \A tbl \in {OutputTable(doc)} :
        \A rows \in {TableRows(doc, tbl)} :
        \A writes \in {SelectSeq(history, Wrote)} :
          /\ Len(rows) = Len(writes) + 2
          /\ \A c \in 1..3 : CellText(doc, tbl, Len(rows), c) = <<>>
          /\ \A k \in 1..Len(writes) :
               /\ CellText(doc, tbl, k + 1, 1) = writes[k].cmd
               /\ CellText(doc, tbl, k + 1, 2) = writes[k].output.str
               /\ Len(CellText(doc, tbl, k + 1, 3)) = Len(Strftime(0)))
  /\ [][\A doc \in {docs[fidFile]} : \A after \in {docs'[fidFile]} :
          after # doc =>
            \A tbl \in {OutputTable(doc)} : \A new \in {OutputTable(after)} :
            \A rows \in {TableRows(doc, tbl)} :
            \A grown \in {TableRows(after, new)} :
              /\ SubSeq(after, new.startIndex + 1, grown[Len(rows)] + 1)
                   = SubSeq(doc, tbl.startIndex + 1, rows[Len(rows)] + 1)
              /\ \A p \in Procs :
                   (pc[p] = "batch" /\ pc'[p] = "sleep")
                     => /\ CellText(after, new, Len(rows), 1) = frame[p].cmd
                        /\ CellText(after, new, Len(rows), 2)
                             = frame[p].output.str
                        /\ CellText(after, new, Len(rows), 3)
                             = Strftime(clock)]_vars

\* C18 witness: two cycles have written, "l" without output and then the
\* rejected "ls": rows 1 and 2 hold them in that order and row 3 is empty.
C18_Witness ==
  /\ history = << [cmd |-> <<"l">>, output |-> Str(OUTPUT_NO_OUTPUT)],
                  [cmd |-> <<"l", "s">>, output |-> Str(OUTPUT_INVALID_CMD)] >>
  /\ OutputRows(docs[1]) = 4
  /\ OutputRow(docs[1], 2) = << <<"l">>, OUTPUT_NO_OUTPUT, Strftime(0) >>
  /\ OutputRow(docs[1], 3) =
       << <<"l", "s">>, OUTPUT_INVALID_CMD, Strftime(sleep_time) >>
  /\ OutputRow(docs[1], 4) = << <<>>, <<>>, <<>> >>

\* a completed cycle whose command was whitelisted and run
Ran(cycle) == GateDecision(cycle.cmd, valid_commands) = "run"

\* C19: no step of the daemon changes the document up to the end of the
\* command table; each cycle reads the command cell as the user left it,
\* trimmed; and every completed cycle with a command, a repeated one too, has
\* its own row, and has its own run when the command is whitelisted.
C19_CommandCellNeverWritten ==
  /\ [][\A p \in Procs :
          /\ pc'[p] # pc[p] =>
               \A doc \in {docs[fidFile]} : \A after \in {docs'[fidFile]} :
                 after # doc =>
                   \A last \in {Content(doc)[3].endIndex} :
                     SubSeq(after, 1, last) = SubSeq(doc, 1, last)
          /\ (pc[p] = "run" /\ pc'[p] = "execute") =>
               \A doc \in {docs[fidFile]} :
                 frame'[p].cmd = Trimmed(CellText(doc, Content(doc)[3], 2, 1))
       ]_vars
  /\ [](\A given \in {SelectSeq(history, Wrote)} :
        \A runs \in {SelectSeq(history, Ran)} :
          /\ \A k \in 1..Len(history) : Wrote(history[k]) <=> history[k].cmd # <<>>
          /\ OutputRows(docs[fidFile]) = 2 + Len(given)
          /\ Len(executed) >= Len(runs)
          /\ \A k \in 1..Len(runs) : executed[k] = Split(runs[k].cmd))

\* C19 witness: the user typed "l" once; two cycles have read it, run it and
\* written a row each, and the command cell still holds "l".
C19_Witness ==
  /\ Len(history) = 2
  /\ history[1].cmd = <<"l">> /\ history[2].cmd = <<"l">>
  /\ executed = << <<"l">>, <<"l">> >>
  /\ OutputRows(docs[1]) = 4
  /\ OutputRow(docs[1], 2)[1] = <<"l">> /\ OutputRow(docs[1], 3)[1] = <<"l">>
  /\ CellText(docs[1], Content(docs[1])[3], 2, 1) = <<"l">>

(***************************************************************************)
(* Properties of the command table from setup on, under Spec.              *)
(***************************************************************************)
\* the text of the command cell (row 1, column 0 of the command table)
CommandCell(doc) == CellText(doc, Content(doc)[3], 2, 1)

\* C20: setup makes the command table with an empty command cell, leaves
\* that cell as it is in its later steps, and ends with the instruction text
\* in row 0; and a poll cycle that finds the command cell empty reads the
\* empty command, hands nothing to subprocess.run, sends no further request
\* and leaves the document as it is.
C20_CommandCellEmptyAfterSetup ==
  [][\A p \in Procs :
       /\ (pc[p] = "add_table_1" /\ pc'[p] = "add_table_3") =>
            \A after \in {docs'[frame[p].fid]} :
              /\ Len(TableRows(after, Content(after)[3])) = 2
              /\ CellText(after, Content(after)[3], 1, 1) = <<>>
              /\ CommandCell(after) = <<>>
       /\ (pc[p] \in {"add_table_3", "add_tables_get"} /\ pc'[p] # pc[p]) =>
            \A doc \in {docs[frame[p].fid]} :
            \A last \in {Content(doc)[3].endIndex} :
              SubSeq(docs'[frame[p].fid], 1, last) = SubSeq(doc, 1, last)
       /\ (pc[p] = "add_tables_text" /\ pc'[p] = "daemonize") =>
            \A doc \in {docs[frame[p].fid]} :
            \A after \in {docs'[frame[p].fid]} :
              /\ CellText(after, Content(after)[3], 1, 1) =
                   <<"I", "n", "s", "e", "r", "t", " ", "c", "o", "m",
                     "m", "a", "n", "d", " ", "b", "e", "l", "o", "w">>
              /\ CommandCell(after) = CommandCell(doc)
       /\ (pc[p] = "run" /\ pc'[p] = "execute") =>
            (CommandCell(docs[fidFile]) = <<>> => frame'[p].cmd = <<>>)
       /\ (pc[p] \in {"execute", "write_output"} /\ frame[p].cmd = <<>>
             /\ pc'[p] # pc[p])
            => /\ pc'[p] \in {"write_output", "sleep", "terminated"}
               /\ UNCHANGED <<docs, executed, calls>>]_vars

\* C20 witness: after a setup that nobody interfered with, two poll cycles
\* have completed on the untouched document: nothing was run and the output
\* table still has its header and one empty row.
C20_Witness ==
  \E p \in Procs :
    /\ mode[p] = "start" /\ pc[p] = "sleep"
    /\ docs = <<TemplateDoc>>
    /\ CommandCell(docs[1]) = <<>>
    /\ Len(history) = 2
    /\ \A k \in 1..2 : history[k] = [cmd |-> <<>>, output |-> None]
    /\ executed = <<>>
    /\ OutputRows(docs[1]) = 2

=============================================================================
